---- MODULE Spec2Model ----
(***************************************************************************)
(* Evaluation job orchestration of the exam grading backend: the trigger   *)
(* route, start_evaluation, the background task process_evaluation, the    *)
(* grading of one sheet, and the routes that change the tables the         *)
(* orchestration reads (answer sheets, answer keys).  One exam is          *)
(* modelled; every table row carries that exam's id.  Each action is one   *)
(* database round trip (or one handler where the handler does not          *)
(* suspend), so requests served by different workers interleave between    *)
(* round trips.  Every remote call may raise.                              *)
(***************************************************************************)
EXTENDS Integers, Sequences, FiniteSets, Bags, TLC

\* ---------------------------------------------------------------- bounds
MaxSheets == 2      \* answer sheets ever uploaded
MaxJobs == 2        \* trigger requests that get past the conflict check
MaxFaults == 1      \* database calls of start_evaluation and of the task body that raise

\* ---------------------------------------------------------------- values
NULL == "null"       \* a null in a text or timestamp column
None == -1           \* a null in a numeric column (marks are never negative)
NoText == <<>>       \* Python's None where a text is expected
NoExam == "no exam"  \* exam_status when the exams table has no row for the exam

Question(q, m) == [qid |-> q, max_marks |-> m]

\* the answer keys a professor posts (questions in order)
KeyA == <<Question("Q1", 1), Question("Q2", 2)>>
KeyB == <<Question("Q1", 2)>>
AnswerKeys == {KeyA, KeyB}

\* Texts are sequences of characters; a student identifier is a text.
\* The texts the engine answers to the identifier prompt, or "raise" when the
\* call fails: a readable id (with stray whitespace), UNKNOWN, nothing, blanks,
\* and a text longer than an identifier may be.
IdMaxLen == 20
LongText == [k \in 1..(IdMaxLen + 1) |-> "9"]
Unknown == <<"U", "N", "K", "N", "O", "W", "N">>
Answered(t) == [raises |-> FALSE, text |-> t]
Raised == [raises |-> TRUE, text |-> <<>>]
IdResponses ==
    {Raised, Answered(Unknown), Answered(<<>>), Answered(<<" ">>),
     Answered(<<" ", "A", " ">>), Answered(<<"A", "\n">>), Answered(LongText)}

\* answers of the engine to one question prompt: the call raises, the text is
\* no JSON, or a JSON object (a NULL field is a missing or null key)
Json(a, i, m) == [kind |-> "json", awarded |-> a, illegible |-> i, max |-> m]
CallRaises == [kind |-> "raise", awarded |-> None, illegible |-> FALSE, max |-> None]
BadJson == [kind |-> "badjson", awarded |-> None, illegible |-> FALSE, max |-> None]
AnswerResponses ==
    {CallRaises, BadJson, Json(1, FALSE, None), Json(None, TRUE, None),
     Json(None, FALSE, None), Json(1, TRUE, None), Json(0, FALSE, 3)}

\* the engine's answers in the specifications of whole jobs: a readable id or
\* none; every question scored, the first call failed, or (one job alone) also
\* the last answer unreadable
Scored == Json(1, FALSE, None)
SweepIdResponses == {Raised, Answered(<<" ", "A", " ">>)}
AllScored(questions) == [k \in DOMAIN questions |-> Scored]
FirstFails(questions) == [k \in DOMAIN questions |-> IF k = 1 THEN CallRaises ELSE Scored]
LastUnreadable(questions) ==
    [k \in DOMAIN questions |-> IF k = Len(questions) THEN Json(None, TRUE, None)
                                ELSE CallRaises]

\* the engine gives marks and calls the answer illegible
MarkedUnreadable(questions) == [k \in DOMAIN questions |-> Json(1, TRUE, None)]

\* the id column the n-th answer_sheets row is given when nothing else is said,
\* a uuid text; Twin is another uuid, with the first characters of SheetUuid(1)
UuidChars == <<"a", "b", "c", "d", "e", "f">>
SheetUuid(n) == <<"0", "0", "0", "0", "0", "0", "0", UuidChars[n], "-", "x">>
Twin == <<"0", "0", "0", "0", "0", "0", "0", UuidChars[1], "-", "y">>
PrefixLen == 8

VARIABLES
    exam_status,        \* exams.status of the exam
    answer_keys,        \* answer_keys rows of the exam (none or one): the questions
    answer_sheets,      \* answer_sheets rows: serial -> [processed, student_id]
    next_sheet,         \* serial of the next uploaded sheet
    evaluation_jobs,    \* evaluation_jobs rows, in insertion order (job id = index)
    results,            \* results rows (a set: each row has its own id)
    next_result,        \* id of the next inserted results row
    illegible_flags,    \* illegible_flags rows (a bag: the table has no unique key)
    tasks,              \* per job: the background task process_evaluation
    running_jobs,       \* evaluator.running_jobs
    trigger_passed,     \* trigger_evaluation calls between conflict check and start
    faults,             \* database calls of start_evaluation and the task that raised
    graded,             \* one grading of a sheet: the inputs and what came out
    start_result,       \* how the latest call of start_evaluation ended
    requests,           \* the calls of the review routes, in flight and ended
    sheet_ids           \* answer_sheets.id of every sheet uploaded so far, a uuid text

vars == <<exam_status, answer_keys, answer_sheets, next_sheet, evaluation_jobs,
          results, next_result, illegible_flags, tasks, running_jobs, trigger_passed,
          faults, graded, start_result,
                   requests,
          sheet_ids>>

db == <<exam_status, answer_keys, answer_sheets, next_sheet, evaluation_jobs,
        results, next_result, illegible_flags,
        sheet_ids>>

JobIds == 1..Len(evaluation_jobs)
SheetIds == DOMAIN answer_sheets
Terminal == {"completed", "failed"}

\* ------------------------------------------------------- pure functions
RECURSIVE SumOver(_, _)
SumOver(f, S) ==
    IF S = {} THEN 0
    ELSE LET x == CHOOSE y \in S : TRUE IN f[x] + SumOver(f, S \ {x})

IsSpace(c) == c \in {" ", "\n"}
NotSpace(c) == ~IsSpace(c)

\* str.strip()
RECURSIVE Strip(_)
Strip(t) ==
    IF t = <<>> THEN t
    ELSE IF IsSpace(t[1]) THEN Strip(Tail(t))
    ELSE IF IsSpace(t[Len(t)]) THEN Strip(SubSeq(t, 1, Len(t) - 1))
    ELSE t

\* gemini_client.extract_student_id on the engine's answer text
extract_student_id(resp) ==
    IF resp.raises THEN NoText
    ELSE LET student_id == Strip(resp.text)
         IN IF /\ student_id # <<>>
               /\ student_id # Unknown
               /\ Len(student_id) <= IdMaxLen
            THEN SelectSeq(student_id, NotSpace)
            ELSE NoText

ErrorEntry(question, why) ==
    [awarded |-> None, max |-> question.max_marks, justification |-> why,
     illegible |-> TRUE]

\* a mutant of evaluate_answer: a failed call is scored zero
evaluate_answer_zero(question, resp) ==
    IF resp.kind \in {"raise", "badjson"}
    THEN [awarded |-> 0, max |-> question.max_marks, justification |-> "error",
          illegible |-> FALSE]
    ELSE [awarded |-> resp.awarded,
          max |-> IF resp.max = None THEN question.max_marks ELSE resp.max,
          justification |-> "graded", illegible |-> resp.illegible]

\* gemini_client.evaluate_answer on the engine's answer
evaluate_answer(question, resp) ==
    CASE resp.kind = "raise" -> ErrorEntry(question, "error")
      [] resp.kind = "badjson" -> ErrorEntry(question, "parse_error")
      [] OTHER ->
           [awarded |-> resp.awarded,
            max |-> IF resp.max = None THEN question.max_marks ELSE resp.max,
            justification |-> "graded",
            illegible |-> resp.illegible]

Qids(questions) == {questions[k].qid : k \in DOMAIN questions}

\* the last question of the list with this qid (a dict keeps the last write)
LastWith(questions, q) ==
    CHOOSE k \in DOMAIN questions :
        /\ questions[k].qid = q
        /\ \A m \in DOMAIN questions : questions[m].qid = q => m <= k

\* gemini_client.evaluate_full_answer_sheet: resps[k] answers question k
evaluate_full_answer_sheet(idresp, questions, resps) ==
    [student_id |-> extract_student_id(idresp),
     breakdown |-> [q \in Qids(questions) |->
                      LET k == LastWith(questions, q)
                      IN evaluate_answer(questions[k], resps[k])]]

\* evaluator.process_evaluation, "Calculate totals"
MaxMarks(breakdown) ==
    SumOver([q \in DOMAIN breakdown |-> breakdown[q].max], DOMAIN breakdown)
HasIllegible(breakdown) == \E q \in DOMAIN breakdown : breakdown[q].illegible
\* a mutant of TotalMarks: the marks of an illegible entry are counted
TotalMarksAll(breakdown) ==
    SumOver([q \in DOMAIN breakdown |->
               IF breakdown[q].awarded # None THEN breakdown[q].awarded ELSE 0],
            DOMAIN breakdown)

TotalMarks(breakdown) ==
    SumOver([q \in DOMAIN breakdown |->
               IF breakdown[q].illegible THEN 0
               ELSE IF breakdown[q].awarded # None THEN breakdown[q].awarded ELSE 0],
            DOMAIN breakdown)

\* evaluator.process_evaluation, fallback identifier of a sheet
FallbackId(sheet) ==
    Unknown \o <<"_">> \o SubSeq(sheet_ids[sheet], 1, PrefixLen)
ResolveStudent(student_id, sheet) ==
    IF student_id = NoText THEN FallbackId(sheet) ELSE student_id

\* the qids of a breakdown in dict order (order of first insertion)
RECURSIVE QidOrder(_)
QidOrder(questions) ==
    IF questions = <<>> THEN <<>>
    ELSE LET front == QidOrder(SubSeq(questions, 1, Len(questions) - 1))
             q == questions[Len(questions)].qid
         IN IF \E k \in DOMAIN front : front[k] = q THEN front ELSE Append(front, q)

IllegibleQids(questions, breakdown) ==
    LET Test(q) == breakdown[q].illegible IN SelectSeq(QidOrder(questions), Test)

\* ---------------------------------------------------------------- rows
NewJob(total) ==
    [status |-> "pending", total_sheets |-> total, processed_sheets |-> 0,
     started_at |-> NULL, completed_at |-> NULL, error_message |-> NULL]

\* The task's position and locals, and what the claims need of its past:
\* raised: an exception reached the outer handler; job_fault: a call outside the
\* loop body raised; failed: the sheets of the sweep whose loop body raised;
\* exam_before: the exam status that start_evaluation replaced by evaluating;
\* calling: the sheets with a download or an engine call awaited (kept by the
\* specification that takes the call and its return as two steps).
NoTask ==
    [pc |-> "none", questions |-> <<>>, sheets |-> <<>>, i |-> 1,
     processed_count |-> 0, raised |-> FALSE, job_fault |-> FALSE, failed |-> {},
     exam_before |-> "none", calling |-> {}]

NewTask == [NoTask EXCEPT !.pc = "start"]

NoGrading ==
    [sheet |-> 1, questions |-> <<>>, idresp |-> Raised, resps |-> <<>>, done |-> FALSE,
     student_id |-> NoText, breakdown |-> <<>>, total_marks |-> 0, max_marks |-> 0,
     has_illegible |-> FALSE]

Init ==
    /\ exam_status = "draft"
    /\ answer_keys = {}
    /\ answer_sheets = <<>>
    /\ next_sheet = 1
    /\ evaluation_jobs = <<>>
    /\ results = {}
    /\ next_result = 1
    /\ illegible_flags = EmptyBag
    /\ tasks = <<>>
    /\ running_jobs = {}
    /\ trigger_passed = 0
    /\ faults = 0
    /\ graded = NoGrading
    /\ start_result = "none"
    /\ requests = <<>>
    /\ sheet_ids = <<>>

\* a database call raises: at most MaxFaults times in a run (a download may
\* fail for every sheet)
Raise(raises) ==
    /\ raises => faults < MaxFaults
    /\ faults' = IF raises THEN faults + 1 ELSE faults

\* ------------------------------------------------- routes around the job
\* routes/answer_sheets.upload_answer_sheets, one PDF
UploadSheet(id) ==
    /\ exam_status # NoExam
    /\ next_sheet <= MaxSheets
    /\ \A n \in DOMAIN sheet_ids : sheet_ids[n] # id
    /\ sheet_ids' = sheet_ids @@ (next_sheet :> id)
    /\ answer_sheets' =
           answer_sheets @@ (next_sheet :> [processed |-> FALSE, student_id |-> NoText])
    /\ next_sheet' = next_sheet + 1
    /\ UNCHANGED <<exam_status, answer_keys, evaluation_jobs, results, next_result,
                   illegible_flags, tasks, running_jobs, trigger_passed, faults, graded, start_result,
                   requests>>

\* routes/answer_sheets.delete_answer_sheet
DeleteSheet(s) ==
    /\ s \in SheetIds
    /\ answer_sheets' = [t \in SheetIds \ {s} |-> answer_sheets[t]]
    /\ UNCHANGED <<exam_status, answer_keys, next_sheet, evaluation_jobs, results,
                   next_result, illegible_flags, tasks, running_jobs, trigger_passed,
                   faults, graded, start_result,
                   requests,
                   sheet_ids>>

\* routes/answer_keys.create_answer_key
CreateAnswerKey(key) ==
    /\ exam_status # NoExam
    /\ answer_keys' = {key}
    /\ exam_status' = IF exam_status = "draft" THEN "ready" ELSE exam_status
    /\ UNCHANGED <<answer_sheets, next_sheet, evaluation_jobs, results, next_result,
                   illegible_flags, tasks, running_jobs, trigger_passed, faults, graded, start_result,
                   requests,
                   sheet_ids>>

\* routes/answer_keys.delete_answer_key
DeleteAnswerKey ==
    /\ answer_keys # {}
    /\ answer_keys' = {}
    /\ exam_status' = "draft"
    /\ UNCHANGED <<answer_sheets, next_sheet, evaluation_jobs, results, next_result,
                   illegible_flags, tasks, running_jobs, trigger_passed, faults, graded, start_result,
                   requests,
                   sheet_ids>>

\* routes/exams.delete_exam: the row of the exam goes, and with it ("cascade")
\* the rows that carry its id.  Taken here for an exam that has no job yet.
DeleteExam ==
    /\ exam_status # NoExam
    /\ evaluation_jobs = <<>>
    /\ exam_status' = NoExam
    /\ answer_keys' = {}
    /\ answer_sheets' = <<>>
    /\ UNCHANGED <<next_sheet, evaluation_jobs, results, next_result, illegible_flags,
                   tasks, running_jobs, trigger_passed, faults, graded, start_result,
                   requests,
                   sheet_ids>>

\* schemas.ExamStatus
ExamStatuses == {"draft", "ready", "evaluating", "completed"}

\* routes/exams.update_exam with a status among its fields: the status is
\* written as given, whatever the exam's jobs are doing
UpdateExam(status) ==
    /\ exam_status # NoExam
    /\ exam_status' = status
    /\ UNCHANGED <<answer_keys, answer_sheets, next_sheet, evaluation_jobs, results,
                   next_result, illegible_flags, tasks, running_jobs, trigger_passed,
                   faults, graded, start_result,
                   requests,
                   sheet_ids>>

\* ------------------------------------------------------------ the trigger
\* routes/evaluation.trigger_evaluation up to the conflict check: 409 when the
\* exam is evaluating, else the request goes on to start_evaluation.  At most
\* `limit` requests get past the check in a run.
TriggerCheck(limit) ==
    /\ exam_status # NoExam
    /\ Len(evaluation_jobs) + trigger_passed < limit
    /\ trigger_passed' = IF exam_status = "evaluating" THEN trigger_passed
                         ELSE trigger_passed + 1
    /\ UNCHANGED <<db, tasks, running_jobs, faults, graded, start_result,
                   requests>>

\* a mutant of SheetCount: the job counts the sheets its sweep will take
SheetCountUnprocessed == Cardinality({s \in SheetIds : ~answer_sheets[s].processed})

\* start_evaluation, "Get count of answer sheets"
SheetCount == Cardinality(SheetIds)

\* a mutant of ValidationFault: an exam without sheets is not refused
ValidationFaultNoSheets ==
    IF exam_status = NoExam THEN "ValueError: exam"
    ELSE IF answer_keys = {} THEN "ValueError: key"
    ELSE "none"

\* start_evaluation's checks before its first write, in order: the ValueError
\* raised, or "none"
ValidationFault ==
    IF exam_status = NoExam THEN "ValueError: exam"
    ELSE IF answer_keys = {} THEN "ValueError: key"
    ELSE IF SheetCount = 0 THEN "ValueError: sheets"
    ELSE "none"

\* evaluator.start_evaluation: ValueError when the exam, the key or the sheets
\* are missing; else the job row, the exam status and the background task.
\* fault names the write that raises.
StartEvaluation(fault) ==
    /\ trigger_passed > 0
    /\ trigger_passed' = trigger_passed - 1
    /\ graded' = graded
    /\ requests' = requests
    /\ IF ValidationFault # "none"
       THEN /\ fault = "none"
            /\ start_result' = ValidationFault
            /\ UNCHANGED <<db, tasks, running_jobs, faults>>
       ELSE /\ Raise(fault # "none")
            /\ start_result' = IF fault = "none" THEN "job started" ELSE "Exception"
            /\ IF fault = "insert"
               THEN UNCHANGED <<db, tasks, running_jobs>>
               ELSE LET job_id == Len(evaluation_jobs) + 1 IN
                    /\ evaluation_jobs' = Append(evaluation_jobs, NewJob(SheetCount))
                    /\ IF fault = "exam"
                       THEN /\ tasks' = Append(tasks, NoTask)
                            /\ UNCHANGED <<exam_status, running_jobs>>
                       ELSE /\ exam_status' = "evaluating"
                            /\ tasks' = Append(tasks, [NewTask EXCEPT
                                                          !.exam_before = exam_status])
                            /\ running_jobs' = running_jobs \cup {job_id}
                    /\ UNCHANGED <<answer_keys, answer_sheets, next_sheet, results,
                                   next_result, illegible_flags, sheet_ids>>

\* ------------------------------------------- process_evaluation, the task
SetTask(j, t) == tasks' = [tasks EXCEPT ![j] = t]
SetJob(j, r) == evaluation_jobs' = [evaluation_jobs EXCEPT ![j] = r]

\* an exception reaches the outer handler ("except Exception as e")
Caught(j) ==
    SetTask(j, [tasks[j] EXCEPT !.pc = "failing", !.raised = TRUE, !.job_fault = TRUE])

\* the task is over: its frame is gone, "finally" has removed it from running_jobs
Finished(t) ==
    [NoTask EXCEPT !.pc = "done", !.raised = t.raised, !.job_fault = t.job_fault]

\* a mutant of Unregister: the removal is skipped when an exception is on its way
UnregisterUnlessRaised(j) ==
    IF tasks[j].raised THEN running_jobs ELSE running_jobs \ {j}

\* "finally: Remove from running jobs"
Unregister(j) == running_jobs \ {j}

\* the rows of a select on answer_sheets, in insertion order
RECURSIVE Ascending(_)
Ascending(S) ==
    IF S = {} THEN <<>>
    ELSE LET m == CHOOSE x \in S : \A y \in S : x <= y
         IN <<m>> \o Ascending(S \ {m})

\* a mutant of SweepList: the sweep takes every sheet, processed or not
SweepListAll == Ascending(SheetIds)

\* "Fetch all unprocessed answer sheets"
SweepList == Ascending({s \in SheetIds : ~answer_sheets[s].processed})

\* process_evaluation up to the loop: "Update job status to in_progress", "Fetch
\* answer key" (data[0] of an empty answer raises IndexError), "Fetch all
\* unprocessed answer sheets".  fault names the call that raises.
TaskBegin(j, fault) ==
    /\ tasks[j].pc = "start"
    /\ Raise(fault # "none")
    /\ evaluation_jobs' =
           IF fault = "start" THEN evaluation_jobs
           ELSE [evaluation_jobs EXCEPT ![j] = [@ EXCEPT !.status = "in_progress",
                                                        !.started_at = "ts"]]
    /\ IF fault # "none" \/ answer_keys = {}
       THEN Caught(j)
       ELSE \E key \in answer_keys :
                SetTask(j, [tasks[j] EXCEPT !.pc = "sweep", !.questions = key,
                                            !.sheets = SweepList, !.i = 1])
    /\ UNCHANGED <<exam_status, answer_keys, answer_sheets, next_sheet, results,
                   next_result, illegible_flags, running_jobs, trigger_passed, graded, start_result,
                   requests,
                   sheet_ids>>

\* a mutant of NextSheet: a sheet that raises ends the loop
NextSheetBreak(t, sheet_failed) ==
    [t EXCEPT !.i = IF sheet_failed THEN Len(t.sheets) + 1 ELSE t.i + 1,
              !.failed = IF sheet_failed THEN t.failed \cup {t.sheets[t.i]} ELSE t.failed]

\* a mutant of NextSheet: a sheet that raises reaches the outer handler
NextSheetEscalate(t, sheet_failed) ==
    [t EXCEPT !.i = t.i + 1,
              !.pc = IF sheet_failed THEN "failing" ELSE t.pc,
              !.raised = sheet_failed \/ t.raised,
              !.failed = IF sheet_failed THEN t.failed \cup {t.sheets[t.i]} ELSE t.failed]

\* the end of the loop body, and the inner handler: "except Exception ...
\* continue" with the next sheet
NextSheet(t, sheet_failed) ==
    [t EXCEPT !.i = t.i + 1,
              !.failed = IF sheet_failed THEN t.failed \cup {t.sheets[t.i]} ELSE t.failed]

\* the calls of the loop body that may raise, in order; "none" ends the list: no
\* call raises (evaluate_full_answer_sheet catches what its calls raise)
PersistOrder == <<"download", "upsert", "select", "flag", "sheet", "progress", "none">>
PersistStages == {PersistOrder[n] : n \in DOMAIN PersistOrder}
Pos(w) == CHOOSE n \in DOMAIN PersistOrder : PersistOrder[n] = w
\* call w returned when the call that raises is `stage`
Made(w, stage) == Pos(w) < Pos(stage)

ResultRow(id, student_id, breakdown) ==
    [id |-> id, student_id |-> student_id, total_marks |-> TotalMarks(breakdown),
     max_marks |-> MaxMarks(breakdown), breakdown |-> breakdown,
     has_illegible |-> HasIllegible(breakdown), reviewed |-> FALSE]

\* the rows of a select on results by (exam_id, student_id)
ResultsOf(rows, student_id) == {r \in rows : r.student_id = student_id}
\* data[0] of that select
FirstResult(rows, student_id) == CHOOSE r \in ResultsOf(rows, student_id) : TRUE

\* a mutant of Upsert: a plain insert
UpsertInsert(student_id, breakdown) ==
    results \cup {ResultRow(next_result, student_id, breakdown)}

\* results.upsert(..., on_conflict="exam_id,student_id"): the row of that key is
\* updated (it keeps its id), or a row is inserted
Upsert(student_id, breakdown) ==
    IF ResultsOf(results, student_id) # {}
    THEN {IF r.student_id = student_id THEN ResultRow(r.id, student_id, breakdown) ELSE r
             : r \in results}
    ELSE results \cup {ResultRow(next_result, student_id, breakdown)}

FlagRow(result_id, student_id, qid, sheet) ==
    [result_id |-> result_id, student_id |-> student_id, question_id |-> qid,
     original_answer_path |-> sheet, resolved |-> FALSE, resolved_marks |-> None]

\* a mutant of MarkProcessed: the identifier is stored, the flag is not flipped
MarkProcessedNoFlag(sheet, student_id) ==
    IF sheet \in SheetIds
    THEN [answer_sheets EXCEPT ![sheet] = [@ EXCEPT !.student_id = student_id]]
    ELSE answer_sheets

\* "Update answer sheet with student ID and mark as processed" (no row, no change)
MarkProcessed(sheet, student_id) ==
    IF sheet \in SheetIds
    THEN [answer_sheets EXCEPT ![sheet] = [student_id |-> student_id, processed |-> TRUE]]
    ELSE answer_sheets

\* a mutant of StartCalls: the calls for all sheets still to do are issued at once
StartCallsAll(t) ==
    [t EXCEPT !.calling = {t.sheets[k] : k \in t.i..Len(t.sheets)}]

\* "for sheet in sheets_result.data": the pass of sheet i issues its download
\* and its engine calls, each awaited before the next
StartCalls(t) ==
    [t EXCEPT !.calling = {t.sheets[t.i]}]

\* the loop enters the pass of its next sheet: the first call is out
TaskSheetCall(j) ==
    /\ tasks[j].pc = "sweep"
    /\ tasks[j].i <= Len(tasks[j].sheets)
    /\ tasks[j].sheets[tasks[j].i] \notin tasks[j].calling
    /\ SetTask(j, StartCalls(tasks[j]))
    /\ UNCHANGED <<db, running_jobs, trigger_passed, faults, graded, start_result,
                   requests>>

\* a mutant of PassQuestions: a pass reads the answer key again (when it has
\* no more questions than the list loaded)
PassQuestionsFresh(t) ==
    IF \E key \in answer_keys : Len(key) <= Len(t.questions)
    THEN CHOOSE key \in answer_keys : Len(key) <= Len(t.questions)
    ELSE t.questions

\* the questions a pass of the loop grades against: the local list built
\* before the loop
PassQuestions(t) == t.questions

\* one sheet of the loop: download_pdf, evaluate_full_answer_sheet (the engine
\* answers idresp and resps), the fallback identifier, the totals, the result
\* upsert, the illegible flags, the sheet update, the progress update.  The call
\* `stage` raises; when it is a flag insert, nflags flags were inserted before it.
TaskSheet(j, idresp, resps, stage, nflags) ==
    /\ tasks[j].pc = "sweep"
    /\ tasks[j].i <= Len(tasks[j].sheets)
    /\ Raise(stage \notin {"none", "download"})
    /\ stage # "flag" => nflags = 0
    /\ LET t == tasks[j]
           sheet == t.sheets[t.i]
           questions == PassQuestions(t)
           out == evaluate_full_answer_sheet(idresp, questions, resps)
           student_id == ResolveStudent(out.student_id, sheet)
           breakdown == out.breakdown
           has_illegible == HasIllegible(breakdown)
           illegible == IllegibleQids(questions, breakdown)
           inserted == IF stage = "flag" THEN nflags
                       ELSE IF Made("flag", stage) /\ has_illegible THEN Len(illegible)
                       ELSE 0
           count == IF Made("sheet", stage) THEN t.processed_count + 1
                    ELSE t.processed_count
       IN /\ stage \in {"select", "flag"} => has_illegible
          /\ stage = "flag" => nflags < Len(illegible)
          /\ results' = IF Made("upsert", stage) THEN Upsert(student_id, breakdown)
                        ELSE results
          /\ next_result' = IF \A r \in results' : r.id # next_result THEN next_result
                            ELSE next_result + 1
          /\ illegible_flags' =
                 illegible_flags (+)
                 SetToBag({FlagRow(FirstResult(results', student_id).id, student_id,
                                   illegible[n], sheet) : n \in 1..inserted})
          /\ answer_sheets' = IF Made("sheet", stage) THEN MarkProcessed(sheet, student_id)
                              ELSE answer_sheets
          /\ evaluation_jobs' =
                 IF Made("progress", stage)
                 THEN [evaluation_jobs EXCEPT ![j] = [@ EXCEPT !.processed_sheets = count]]
                 ELSE evaluation_jobs
          /\ SetTask(j, [NextSheet(t, stage # "none") EXCEPT !.processed_count = count,
                                                             !.calling = @ \ {sheet}])
    /\ UNCHANGED <<exam_status, answer_keys, next_sheet, running_jobs, trigger_passed,
                   graded, start_result,
                   requests,
                   sheet_ids>>

\* a mutant of CompletedRow: the time of completion is not stored
CompletedRowNoStamp(row) ==
    [row EXCEPT !.status = "completed"]

\* the update after the loop: status and completed_at
CompletedRow(row) ==
    [row EXCEPT !.status = "completed", !.completed_at = "ts"]

\* "Mark job as completed", after the loop
TaskComplete(j, raises) ==
    /\ tasks[j].pc = "sweep"
    /\ tasks[j].i > Len(tasks[j].sheets)
    /\ Raise(raises)
    /\ IF raises
       THEN Caught(j) /\ UNCHANGED evaluation_jobs
       ELSE /\ SetJob(j, CompletedRow(evaluation_jobs[j]))
            /\ SetTask(j, [tasks[j] EXCEPT !.pc = "exam_completed"])
    /\ UNCHANGED <<exam_status, answer_keys, answer_sheets, next_sheet, results,
                   next_result, illegible_flags, running_jobs, trigger_passed, graded, start_result,
                   requests,
                   sheet_ids>>

\* "Update exam status" to completed, then finally
TaskExamCompleted(j, raises) ==
    /\ tasks[j].pc = "exam_completed"
    /\ Raise(raises)
    /\ IF raises
       THEN Caught(j) /\ UNCHANGED <<exam_status, running_jobs>>
       ELSE /\ exam_status' = "completed"
            /\ SetTask(j, Finished(tasks[j]))
            /\ running_jobs' = Unregister(j)
    /\ UNCHANGED <<answer_keys, answer_sheets, next_sheet, evaluation_jobs, results,
                   next_result, illegible_flags, trigger_passed, graded, start_result,
                   requests,
                   sheet_ids>>

\* a mutant of FailedRow: the cause is not stored
FailedRowNoCause(row) ==
    [row EXCEPT !.status = "failed", !.completed_at = "ts"]

\* the update of the outer handler: status, error_message = str(e), completed_at
FailedRow(row) ==
    [row EXCEPT !.status = "failed", !.error_message = "str(e)", !.completed_at = "ts"]

\* the outer handler, "Mark job as failed"; when this write raises the handler
\* is left through finally.  The handler runs because a call has raised: that
\* its own writes raise as well is not counted against MaxFaults.
TaskFailJob(j, raises) ==
    /\ tasks[j].pc = "failing"
    /\ faults' = faults
    /\ IF raises
       THEN /\ SetTask(j, Finished(tasks[j]))
            /\ running_jobs' = Unregister(j)
            /\ UNCHANGED evaluation_jobs
       ELSE /\ SetJob(j, FailedRow(evaluation_jobs[j]))
            /\ SetTask(j, [tasks[j] EXCEPT !.pc = "reverting"])
            /\ UNCHANGED running_jobs
    /\ UNCHANGED <<exam_status, answer_keys, answer_sheets, next_sheet, results,
                   next_result, illegible_flags, trigger_passed, graded, start_result,
                   requests,
                   sheet_ids>>

\* the outer handler, "Revert exam status", then raise and finally
TaskRevertExam(j, raises) ==
    /\ tasks[j].pc = "reverting"
    /\ faults' = faults
    /\ exam_status' = IF raises THEN exam_status ELSE "ready"
    /\ SetTask(j, Finished(tasks[j]))
    /\ running_jobs' = Unregister(j)
    /\ UNCHANGED <<answer_keys, answer_sheets, next_sheet, evaluation_jobs, results,
                   next_result, illegible_flags, trigger_passed, graded, start_result,
                   requests,
                   sheet_ids>>

\* ------------------------------------------------------- the review routes
\* A call of a review route: its position and its locals.  A call that has
\* ended keeps its route and its response only.
MaxRequests == 2

NoBreakdown == [q \in {} |-> NULL]
NoRow ==
    [id |-> 0, student_id |-> NoText, total_marks |-> 0, max_marks |-> 0,
     breakdown |-> NoBreakdown, has_illegible |-> FALSE, reviewed |-> FALSE]
NoUpdates == [breakdown |-> NoBreakdown, reviewed |-> NULL]
NoRequest ==
    [route |-> "none", pc |-> "done", response |-> "none", student_id |-> NoText,
     question_id |-> "", marks |-> None, updates |-> NoUpdates,
     new_student_id |-> NoText, current |-> NoRow]
Ended(route, response) == [NoRequest EXCEPT !.route = route, !.response = response]
RequestIds == DOMAIN requests
SetRequest(n, r) == requests' = [requests EXCEPT ![n] = r]

\* schemas.QuestionBreakdown as a professor posts it
Entry(a, m, i) == [awarded |-> a, max |-> m, justification |-> "override", illegible |-> i]
\* schemas.ResultUpdate: overrides of entries (none: a missing or empty dict)
\* and the reviewed flag (NULL: not given)
ResultUpdate(b, v) == [breakdown |-> b, reviewed |-> v]
ResultUpdates ==
    {ResultUpdate("Q1" :> Entry(4, 1, FALSE), NULL),
     ResultUpdate("Q2" :> Entry(None, 2, TRUE), NULL),
     ResultUpdate("Q3" :> Entry(None, 1, FALSE), NULL),
     ResultUpdate("Q1" :> Entry(1, 1, TRUE), "true"),
     ResultUpdate(NoBreakdown, "true")}
\* schemas.IllegalFlagResolve.marks
ResolvedMarks == {0, 7}
\* the identifiers a professor names: those stored, and one that no row carries
Absent == <<"B">>
StudentIds ==
    ({answer_sheets[s].student_id : s \in SheetIds} \cup {r.student_id : r \in results}
        \cup {Absent}) \ {NoText}

\* routes/results.update_result: the overrides laid over the breakdown read
Overridden(breakdown, overrides) ==
    [q \in DOMAIN breakdown \cup DOMAIN overrides |->
        IF q \in DOMAIN overrides THEN overrides[q] ELSE breakdown[q]]

\* a mutant of RecalculatedTotal: the marks of an illegible entry are counted
RecalculatedTotalAll(breakdown) ==
    SumOver([q \in DOMAIN breakdown |->
               IF breakdown[q].awarded # None THEN breakdown[q].awarded ELSE 0],
            DOMAIN breakdown)

\* routes/results.update_result, "Recalculate total marks"
RecalculatedTotal(breakdown) ==
    SumOver([q \in DOMAIN breakdown |->
               IF breakdown[q].illegible THEN 0
               ELSE IF breakdown[q].awarded # None THEN breakdown[q].awarded ELSE 0],
            DOMAIN breakdown)
RecalculatedIllegible(breakdown) == \E q \in DOMAIN breakdown : breakdown[q].illegible

\* routes/results.update_result: update_data applied to a row
Overriding(row, current, updates) ==
    LET new_breakdown == Overridden(current.breakdown, updates.breakdown)
        marked == IF DOMAIN updates.breakdown # {}
                  THEN [row EXCEPT !.breakdown = new_breakdown,
                                   !.total_marks = RecalculatedTotal(new_breakdown),
                                   !.has_illegible = RecalculatedIllegible(new_breakdown)]
                  ELSE row
    IN IF updates.reviewed # NULL
       THEN [marked EXCEPT !.reviewed = (updates.reviewed = "true")]
       ELSE marked

\* routes/results.update_result up to "if not update_data": the select, 404
\* without a row, the row back when nothing is to be updated
UpdateResultSelect(student_id, updates) ==
    /\ Len(requests) < MaxRequests
    /\ \/ /\ ResultsOf(results, student_id) = {}
          /\ requests' = Append(requests, Ended("update_result", "404"))
       \/ \E current \in ResultsOf(results, student_id) :
             requests' =
                 Append(requests,
                        IF DOMAIN updates.breakdown = {} /\ updates.reviewed = NULL
                        THEN Ended("update_result", "200")
                        ELSE [NoRequest EXCEPT !.route = "update_result", !.pc = "update",
                                               !.student_id = student_id,
                                               !.updates = updates, !.current = current])
    /\ UNCHANGED <<db, tasks, running_jobs, trigger_passed, faults, graded, start_result>>

\* routes/results.update_result, the update of the rows of (exam_id, student_id)
UpdateResultUpdate(n, raises) ==
    /\ n \in RequestIds
    /\ requests[n].route = "update_result"
    /\ requests[n].pc = "update"
    /\ Raise(raises)
    /\ LET r == requests[n]
           matched == ResultsOf(results, r.student_id)
       IN /\ results' = IF raises THEN results
                        ELSE {IF row \in matched THEN Overriding(row, r.current, r.updates)
                              ELSE row : row \in results}
          /\ SetRequest(n, Ended("update_result",
                                 IF raises \/ matched = {} THEN "500" ELSE "200"))
    /\ UNCHANGED <<exam_status, answer_keys, answer_sheets, next_sheet, evaluation_jobs,
                   next_result, illegible_flags, tasks, running_jobs, trigger_passed,
                   graded, start_result,
                   sheet_ids>>

\* the rows of a select on illegible_flags by (exam_id, student_id, question_id)
FlagsOf(student_id, question_id) ==
    {f \in BagToSet(illegible_flags) :
        f.student_id = student_id /\ f.question_id = question_id}

\* a mutant of Resolved: the entry keeps its illegible mark
ResolvedStillIllegible(breakdown, question_id, marks) ==
    IF question_id \in DOMAIN breakdown
    THEN [breakdown EXCEPT ![question_id] =
              [@ EXCEPT !.awarded = marks, !.justification = "manual"]]
    ELSE breakdown

\* routes/results.resolve_illegible_flag, "if question_id in breakdown": the
\* entry after the resolution (its justification is marked as manual grading;
\* the text it wraps is not kept here)
Resolved(breakdown, question_id, marks) ==
    IF question_id \in DOMAIN breakdown
    THEN [breakdown EXCEPT ![question_id] =
              [@ EXCEPT !.awarded = marks, !.illegible = FALSE,
                        !.justification = "manual"]]
    ELSE breakdown

\* routes/results.resolve_illegible_flag, "Recalculate totals"
RecomputedTotal(breakdown) ==
    SumOver([q \in DOMAIN breakdown |->
               IF breakdown[q].awarded # None /\ ~breakdown[q].illegible
               THEN breakdown[q].awarded ELSE 0],
            DOMAIN breakdown)
RecomputedIllegible(breakdown) == \E q \in DOMAIN breakdown : breakdown[q].illegible

\* routes/results.resolve_illegible_flag: the update applied to a row
ResolvedRow(row, current, question_id, marks) ==
    LET breakdown == Resolved(current.breakdown, question_id, marks)
    IN [row EXCEPT !.breakdown = breakdown,
                   !.total_marks = RecomputedTotal(breakdown),
                   !.has_illegible = RecomputedIllegible(breakdown)]

\* routes/results.resolve_illegible_flag, "Find the flag" and "Update the
\* flag": 404 without a flag, else the first flag found is updated by its id
ResolveFlag(student_id, question_id, marks, raises) ==
    /\ Len(requests) < MaxRequests
    /\ \/ /\ FlagsOf(student_id, question_id) = {}
          /\ ~raises
          /\ requests' = Append(requests, Ended("resolve_illegible_flag", "404"))
          /\ UNCHANGED <<illegible_flags, faults>>
       \/ \E flag \in FlagsOf(student_id, question_id) :
             /\ Raise(raises)
             /\ illegible_flags' =
                    IF raises THEN illegible_flags
                    ELSE (illegible_flags (-) SetToBag({flag}))
                            (+) SetToBag({[flag EXCEPT !.resolved = TRUE,
                                                       !.resolved_marks = marks]})
             /\ requests' =
                    Append(requests,
                           IF raises THEN Ended("resolve_illegible_flag", "500")
                           ELSE [NoRequest EXCEPT !.route = "resolve_illegible_flag",
                                                  !.pc = "select",
                                                  !.student_id = student_id,
                                                  !.question_id = question_id,
                                                  !.marks = marks])
    /\ UNCHANGED <<exam_status, answer_keys, answer_sheets, next_sheet, evaluation_jobs,
                   results, next_result, tasks, running_jobs, trigger_passed, graded,
                   start_result,
                   sheet_ids>>

\* routes/results.resolve_illegible_flag, the select of the result row
ResolveSelect(n) ==
    /\ n \in RequestIds
    /\ requests[n].route = "resolve_illegible_flag"
    /\ requests[n].pc = "select"
    /\ \/ /\ ResultsOf(results, requests[n].student_id) = {}
          /\ SetRequest(n, Ended("resolve_illegible_flag", "200"))
       \/ \E current \in ResultsOf(results, requests[n].student_id) :
             SetRequest(n, [requests[n] EXCEPT !.pc = "update", !.current = current])
    /\ UNCHANGED <<db, tasks, running_jobs, trigger_passed, faults, graded, start_result>>

\* routes/results.resolve_illegible_flag, the update of the result row
ResolveUpdate(n, raises) ==
    /\ n \in RequestIds
    /\ requests[n].route = "resolve_illegible_flag"
    /\ requests[n].pc = "update"
    /\ Raise(raises)
    /\ LET r == requests[n]
           matched == ResultsOf(results, r.student_id)
       IN /\ results' = IF raises THEN results
                        ELSE {IF row \in matched
                              THEN ResolvedRow(row, r.current, r.question_id, r.marks)
                              ELSE row : row \in results}
          /\ SetRequest(n, Ended("resolve_illegible_flag",
                                 IF raises THEN "500" ELSE "200"))
    /\ UNCHANGED <<exam_status, answer_keys, answer_sheets, next_sheet, evaluation_jobs,
                   next_result, illegible_flags, tasks, running_jobs, trigger_passed,
                   graded, start_result,
                   sheet_ids>>

\* routes/students.update_student, "Find the answer sheet" and "Update answer
\* sheet": 404 without a sheet of that identifier, else the first sheet found
\* takes the new identifier (the old one when none is given)
UpdateStudentSheet(student_id, given, raises) ==
    /\ Len(requests) < MaxRequests
    /\ LET existing == {s \in SheetIds : answer_sheets[s].student_id = student_id}
           new_student_id == IF given = NoText THEN student_id ELSE given
       IN \/ /\ existing = {}
             /\ ~raises
             /\ requests' = Append(requests, Ended("update_student", "404"))
             /\ UNCHANGED <<answer_sheets, faults>>
          \/ \E sheet_id \in existing :
                /\ Raise(raises)
                /\ answer_sheets' =
                       IF raises THEN answer_sheets
                       ELSE [answer_sheets EXCEPT ![sheet_id].student_id = new_student_id]
                /\ requests' =
                       Append(requests,
                              IF raises THEN Ended("update_student", "500")
                              ELSE IF new_student_id = student_id
                              THEN Ended("update_student", "200")
                              ELSE [NoRequest EXCEPT !.route = "update_student",
                                                     !.pc = "results",
                                                     !.student_id = student_id,
                                                     !.new_student_id = new_student_id])
    /\ UNCHANGED <<exam_status, answer_keys, next_sheet, evaluation_jobs, results,
                   next_result, illegible_flags, tasks, running_jobs, trigger_passed,
                   graded, start_result,
                   sheet_ids>>

\* a mutant of UniqueViolation: the table has no unique key
UniqueViolationNever(rows, old_student_id, new_student_id) == FALSE

\* The unique key of results on (exam_id, student_id), the conflict target of
\* the upsert: an update that would give a second row the same key raises.
UniqueViolation(rows, old_student_id, new_student_id) ==
    /\ ResultsOf(rows, old_student_id) # {}
    /\ ResultsOf(rows, new_student_id) # {}

\* routes/students.update_student, the update of results.student_id
UpdateStudentResults(n, raises) ==
    /\ n \in RequestIds
    /\ requests[n].route = "update_student"
    /\ requests[n].pc = "results"
    /\ Raise(raises)
    /\ LET r == requests[n]
           fails == raises \/ UniqueViolation(results, r.student_id, r.new_student_id)
       IN /\ results' = IF fails THEN results
                        ELSE {IF row.student_id = r.student_id
                              THEN [row EXCEPT !.student_id = r.new_student_id]
                              ELSE row : row \in results}
          /\ SetRequest(n, IF fails THEN Ended("update_student", "500")
                           ELSE [r EXCEPT !.pc = "flags"])
    /\ UNCHANGED <<exam_status, answer_keys, answer_sheets, next_sheet, evaluation_jobs,
                   next_result, illegible_flags, tasks, running_jobs, trigger_passed,
                   graded, start_result,
                   sheet_ids>>

\* routes/students.update_student, the update of illegible_flags.student_id
UpdateStudentFlags(n, raises) ==
    /\ n \in RequestIds
    /\ requests[n].route = "update_student"
    /\ requests[n].pc = "flags"
    /\ Raise(raises)
    /\ LET r == requests[n]
           Moved(f) == IF f.student_id = r.student_id
                       THEN [f EXCEPT !.student_id = r.new_student_id] ELSE f
       IN /\ illegible_flags' = IF raises THEN illegible_flags
                                ELSE BagOfAll(Moved, illegible_flags)
          /\ SetRequest(n, Ended("update_student", IF raises THEN "500" ELSE "200"))
    /\ UNCHANGED <<exam_status, answer_keys, answer_sheets, next_sheet, evaluation_jobs,
                   results, next_result, tasks, running_jobs, trigger_passed, graded,
                   start_result,
                   sheet_ids>>

\* ------------------------------------------------------- one grading
\* The grading of one sheet as the loop body computes it, on inputs of its own:
\* evaluate_full_answer_sheet, the fallback identifier, "Calculate totals".
Grade ==
    /\ ~graded.done
    /\ LET out == evaluate_full_answer_sheet(graded.idresp, graded.questions, graded.resps)
       IN graded' = [graded EXCEPT
                        !.done = TRUE,
                        !.student_id = ResolveStudent(out.student_id, graded.sheet),
                        !.breakdown = out.breakdown,
                        !.total_marks = TotalMarks(out.breakdown),
                        !.max_marks = MaxMarks(out.breakdown),
                        !.has_illegible = HasIllegible(out.breakdown)]
    /\ UNCHANGED <<db, tasks, running_jobs, trigger_passed, faults, start_result,
                   requests>>

\* a key that names a question twice (the request schema does not forbid it)
KeyTwice == <<Question("Q1", 1), Question("Q2", 2), Question("Q1", 2)>>
GradedKeys == AnswerKeys \cup {KeyTwice, <<>>}

InitGrading ==
    /\ exam_status = "evaluating"
    /\ answer_keys = {}
    /\ answer_sheets = <<>>
    /\ next_sheet = 1
    /\ evaluation_jobs = <<>>
    /\ results = {}
    /\ next_result = 1
    /\ illegible_flags = EmptyBag
    /\ tasks = <<>>
    /\ running_jobs = {}
    /\ trigger_passed = 0
    /\ faults = 0
    /\ start_result = "none"
    /\ requests = <<>>
    /\ sheet_ids = [n \in 1..MaxSheets |-> SheetUuid(n)]
    /\ \E sheet \in 1..MaxSheets, key \in GradedKeys, idresp \in IdResponses :
          \E resps \in [DOMAIN key -> AnswerResponses] :
              graded = [NoGrading EXCEPT !.sheet = sheet, !.questions = key,
                                         !.idresp = idresp, !.resps = resps]

\* ---------------------------------------------------------- specification
TwoVectors(questions) == {AllScored(questions), FirstFails(questions)}
ThreeVectors(questions) == TwoVectors(questions) \cup {LastUnreadable(questions)}

\* Spec: the triggers and the jobs of one exam, runs and re-runs, beside uploads
Next ==
    \/ UploadSheet(SheetUuid(next_sheet))
    \/ CreateAnswerKey(KeyA)
    \/ TriggerCheck(MaxJobs)
    \/ \E fault \in {"none", "insert", "exam"} : StartEvaluation(fault)
    \/ \E j \in JobIds, fault \in {"none", "start", "load", "enumerate"} : TaskBegin(j, fault)
    \/ \E j \in JobIds, idresp \in SweepIdResponses, stage \in PersistStages :
          \E resps \in TwoVectors(tasks[j].questions), nflags \in 0..Len(tasks[j].questions) :
              TaskSheet(j, idresp, resps, stage, nflags)
    \/ \E j \in JobIds, raises \in BOOLEAN : TaskComplete(j, raises)
    \/ \E j \in JobIds, raises \in BOOLEAN : TaskExamCompleted(j, raises)
    \/ \E j \in JobIds, raises \in BOOLEAN : TaskFailJob(j, raises)
    \/ \E j \in JobIds, raises \in BOOLEAN : TaskRevertExam(j, raises)

Spec == Init /\ [][Next]_vars

\* SpecJob: one job alone, beside uploads, deletions and changes of the key
NextJob ==
    \/ UploadSheet(SheetUuid(next_sheet))
    \/ \E s \in SheetIds : DeleteSheet(s)
    \/ \E key \in AnswerKeys : CreateAnswerKey(key)
    \/ DeleteAnswerKey
    \/ TriggerCheck(1)
    \/ \E fault \in {"none", "insert", "exam"} : StartEvaluation(fault)
    \/ \E j \in JobIds, fault \in {"none", "start", "load", "enumerate"} : TaskBegin(j, fault)
    \/ \E j \in JobIds, idresp \in SweepIdResponses, stage \in PersistStages :
          \E resps \in ThreeVectors(tasks[j].questions),
             nflags \in 0..Len(tasks[j].questions) :
              TaskSheet(j, idresp, resps, stage, nflags)
    \/ \E j \in JobIds, raises \in BOOLEAN : TaskComplete(j, raises)
    \/ \E j \in JobIds, raises \in BOOLEAN : TaskExamCompleted(j, raises)
    \/ \E j \in JobIds, raises \in BOOLEAN : TaskFailJob(j, raises)
    \/ \E j \in JobIds, raises \in BOOLEAN : TaskRevertExam(j, raises)

SpecJob == Init /\ [][NextJob]_vars

\* SpecJobFair: SpecJob where a request that passed the trigger's checks goes on
\* to start_evaluation, and a background task that can take a step takes one
\* (the event loop schedules it; every external call returns or raises)
TaskNext ==
    \/ \E j \in JobIds, fault \in {"none", "start", "load", "enumerate"} : TaskBegin(j, fault)
    \/ \E j \in JobIds, idresp \in SweepIdResponses, stage \in PersistStages :
          \E resps \in ThreeVectors(tasks[j].questions),
             nflags \in 0..Len(tasks[j].questions) :
              TaskSheet(j, idresp, resps, stage, nflags)
    \/ \E j \in JobIds, raises \in BOOLEAN : TaskComplete(j, raises)
    \/ \E j \in JobIds, raises \in BOOLEAN : TaskExamCompleted(j, raises)
    \/ \E j \in JobIds, raises \in BOOLEAN : TaskFailJob(j, raises)
    \/ \E j \in JobIds, raises \in BOOLEAN : TaskRevertExam(j, raises)

SpecJobFair ==
    /\ Init
    /\ [][NextJob]_vars
    /\ WF_vars(\E fault \in {"none", "insert", "exam"} : StartEvaluation(fault))
    /\ WF_vars(TaskNext)

\* SpecStart: the trigger and start_evaluation alone, beside the routes that
\* change what its checks read, the deletion of the exam among them
NextStart ==
    \/ UploadSheet(SheetUuid(next_sheet))
    \/ \E s \in SheetIds : DeleteSheet(s)
    \/ \E key \in AnswerKeys : CreateAnswerKey(key)
    \/ DeleteAnswerKey
    \/ DeleteExam
    \/ \E status \in ExamStatuses : UpdateExam(status)
    \/ TriggerCheck(MaxJobs)
    \/ \E fault \in {"none", "insert", "exam"} : StartEvaluation(fault)

SpecStart == Init /\ [][NextStart]_vars

\* SpecReview: one job over the uploaded sheets, beside the calls of the
\* review routes: overrides, resolutions of flags, corrections of identifiers
ReviewVectors(questions) ==
    {AllScored(questions), LastUnreadable(questions), MarkedUnreadable(questions)}
NextReview ==
    \/ UploadSheet(SheetUuid(next_sheet))
    \/ CreateAnswerKey(KeyA)
    \/ TriggerCheck(1)
    \/ StartEvaluation("none")
    \/ \E j \in JobIds : TaskBegin(j, "none")
    \/ \E j \in JobIds, idresp \in SweepIdResponses :
          \E resps \in ReviewVectors(tasks[j].questions) :
              TaskSheet(j, idresp, resps, "none", 0)
    \/ \E j \in JobIds : TaskComplete(j, FALSE)
    \/ \E j \in JobIds : TaskExamCompleted(j, FALSE)
    \/ \E student_id \in StudentIds, updates \in ResultUpdates :
          UpdateResultSelect(student_id, updates)
    \/ \E n \in RequestIds, raises \in BOOLEAN : UpdateResultUpdate(n, raises)
    \/ \E student_id \in StudentIds, question_id \in {"Q1", "Q2"}, marks \in ResolvedMarks,
          raises \in BOOLEAN : ResolveFlag(student_id, question_id, marks, raises)
    \/ \E n \in RequestIds : ResolveSelect(n)
    \/ \E n \in RequestIds, raises \in BOOLEAN : ResolveUpdate(n, raises)
    \/ \E student_id \in StudentIds, given \in {NoText, <<"A">>},
          raises \in BOOLEAN : UpdateStudentSheet(student_id, given, raises)
    \/ \E n \in RequestIds, raises \in BOOLEAN : UpdateStudentResults(n, raises)
    \/ \E n \in RequestIds, raises \in BOOLEAN : UpdateStudentFlags(n, raises)

SpecReview == Init /\ [][NextReview]_vars

\* SpecStudents: one job over the uploaded sheets, beside corrections of
\* identifiers to an identifier in use and to one that no row carries
NewStudentIds == {NoText, <<"A">>, Absent}
NextStudents ==
    \/ UploadSheet(SheetUuid(next_sheet))
    \/ CreateAnswerKey(KeyA)
    \/ TriggerCheck(1)
    \/ StartEvaluation("none")
    \/ \E j \in JobIds : TaskBegin(j, "none")
    \/ \E j \in JobIds, idresp \in SweepIdResponses :
          \E resps \in {AllScored(tasks[j].questions), MarkedUnreadable(tasks[j].questions)} :
              TaskSheet(j, idresp, resps, "none", 0)
    \/ \E j \in JobIds : TaskComplete(j, FALSE)
    \/ \E j \in JobIds : TaskExamCompleted(j, FALSE)
    \/ \E student_id \in StudentIds, given \in NewStudentIds, raises \in BOOLEAN :
          UpdateStudentSheet(student_id, given, raises)
    \/ \E n \in RequestIds, raises \in BOOLEAN : UpdateStudentResults(n, raises)
    \/ \E n \in RequestIds, raises \in BOOLEAN : UpdateStudentFlags(n, raises)

SpecStudents == Init /\ [][NextStudents]_vars

\* SpecIds: one job over sheets whose ids are any distinct uuids, for every
\* answer of the engine to the identifier prompt
Uuids == {SheetUuid(n) : n \in 1..MaxSheets} \cup {Twin}
NextIds ==
    \/ \E id \in Uuids : UploadSheet(id)
    \/ CreateAnswerKey(KeyA)
    \/ TriggerCheck(1)
    \/ StartEvaluation("none")
    \/ \E j \in JobIds : TaskBegin(j, "none")
    \/ \E j \in JobIds, idresp \in IdResponses, stage \in {"none", "download"} :
          TaskSheet(j, idresp, AllScored(tasks[j].questions), stage, 0)
    \/ \E j \in JobIds : TaskComplete(j, FALSE)
    \/ \E j \in JobIds : TaskExamCompleted(j, FALSE)

SpecIds == Init /\ [][NextIds]_vars

\* SpecWorkers: one job over more sheets than the thread pool has workers, the
\* calls of a pass and their return taken as two steps
WorkerSheets == 4
InitWorkers ==
    /\ exam_status = "ready"
    /\ answer_keys = {KeyA}
    /\ answer_sheets = [n \in 1..WorkerSheets |-> [processed |-> FALSE, student_id |-> NoText]]
    /\ next_sheet = WorkerSheets + 1
    /\ evaluation_jobs = <<>>
    /\ results = {}
    /\ next_result = 1
    /\ illegible_flags = EmptyBag
    /\ tasks = <<>>
    /\ running_jobs = {}
    /\ trigger_passed = 0
    /\ faults = 0
    /\ graded = NoGrading
    /\ start_result = "none"
    /\ requests = <<>>
    /\ sheet_ids = [n \in 1..WorkerSheets |-> SheetUuid(n)]

\* the return of the calls of a pass, and the rest of the pass
TaskSheetReturn(j, idresp, resps, stage) ==
    /\ tasks[j].pc = "sweep"
    /\ tasks[j].i <= Len(tasks[j].sheets)
    /\ tasks[j].sheets[tasks[j].i] \in tasks[j].calling
    /\ TaskSheet(j, idresp, resps, stage, 0)

NextWorkers ==
    \/ TriggerCheck(1)
    \/ StartEvaluation("none")
    \/ \E j \in JobIds : TaskBegin(j, "none")
    \/ \E j \in JobIds : TaskSheetCall(j)
    \/ \E j \in JobIds, idresp \in SweepIdResponses, stage \in {"none", "download"} :
          \E resps \in TwoVectors(tasks[j].questions) :
              TaskSheetReturn(j, idresp, resps, stage)
    \/ \E j \in JobIds : TaskComplete(j, FALSE)
    \/ \E j \in JobIds : TaskExamCompleted(j, FALSE)

SpecWorkers == InitWorkers /\ [][NextWorkers]_vars

\* SpecGrading: the grading of one sheet, for every key and every answer of the engine
NextGrading == Grade

SpecGrading == InitGrading /\ [][NextGrading]_vars

\* ------------------------------------------------------------- properties
\* C1: every job whose persisted status is completed has processed_sheets equal
\* to total_sheets (first runs, re-runs, runs in which sheets fail).
C1_CompletedIsFullyProcessed ==
    \A j \in JobIds :
        evaluation_jobs[j].status = "completed"
            => evaluation_jobs[j].processed_sheets = evaluation_jobs[j].total_sheets

\* C2: at most one job of the exam is pending or in_progress at any time, for
\* every ordering or interleaving of trigger calls.
C2_AtMostOneLiveJob ==
    Cardinality({j \in JobIds : evaluation_jobs[j].status \notin Terminal}) <= 1

\* C3: the status of a job only moves along pending -> in_progress ->
\* {completed, failed}, and a completed or failed status is never written over,
\* also when persistence writes raise.
StatusRank(status) ==
    CASE status = "pending" -> 0
      [] status = "in_progress" -> 1
      [] OTHER -> 2
C3_StatusMonotoneAndFinal ==
    [][\A j \in JobIds :
          /\ StatusRank(evaluation_jobs[j].status) <= StatusRank(evaluation_jobs'[j].status)
          /\ evaluation_jobs[j].status \in Terminal
                => evaluation_jobs'[j].status = evaluation_jobs[j].status]_vars

\* C4: in every reachable state every job has processed_sheets <= total_sheets,
\* whatever the interleaving of start_evaluation, the task, uploads and deletions.
C4_ProcessedAtMostTotal ==
    \A j \in JobIds :
        evaluation_jobs[j].processed_sheets <= evaluation_jobs[j].total_sheets

\* C5: during the sweep the persisted progress counter has been advanced once for
\* every sheet the sweep has attempted, scored or failed.
C5_ProgressCountsEveryAttempt ==
    \A j \in JobIds :
        tasks[j].pc = "sweep" => evaluation_jobs[j].processed_sheets = tasks[j].i - 1

\* C6: a sheet whose processing raises does not keep the other sheets of the
\* sweep from being graded and stored: every sheet the loop has passed whose own
\* calls all returned, and whose row is still in the table, is processed = true
\* under an identifier that has a result row; and the loop passes every sheet
\* of the sweep, one at a time, until the list is exhausted.
SweptOk(j) ==
    {tasks[j].sheets[k] : k \in 1..(tasks[j].i - 1)} \ tasks[j].failed
C6_OtherSheetsStillGraded ==
    \A j \in JobIds :
        tasks[j].pc \in {"sweep", "exam_completed"} =>
            /\ tasks[j].i <= Len(tasks[j].sheets) + 1
            /\ tasks[j].pc = "exam_completed" => tasks[j].i = Len(tasks[j].sheets) + 1
            /\ \A s \in SweptOk(j) \cap SheetIds :
                  /\ answer_sheets[s].processed
                  /\ ResultsOf(results, answer_sheets[s].student_id) # {}

\* C6 witness: a sweep is over in which a sheet raised and a later sheet of the
\* list was graded and stored.
C6_Witness ==
    \E j \in JobIds :
        /\ tasks[j].pc = "sweep"
        /\ tasks[j].i > Len(tasks[j].sheets)
        /\ \E k1, k2 \in DOMAIN tasks[j].sheets :
              /\ k1 < k2
              /\ tasks[j].sheets[k1] \in tasks[j].failed
              /\ tasks[j].sheets[k2] \in SweptOk(j) \cap SheetIds
              /\ answer_sheets[tasks[j].sheets[k2]].processed
              /\ ResultsOf(results, answer_sheets[tasks[j].sheets[k2]].student_id) # {}

\* C7: failures of single sheets never put the job in failed.  A job whose task
\* is over without a raise outside the loop body is completed, whatever number
\* of its sheets raised; completed is written only by such a task; and a job is
\* failed only when a call outside the loop body raised.
C7_SheetFailuresNeverFailTheJob ==
    \A j \in JobIds :
        /\ tasks[j].pc = "done" /\ ~tasks[j].job_fault
              => evaluation_jobs[j].status = "completed"
        /\ tasks[j].pc = "exam_completed" => evaluation_jobs[j].status = "completed"
        /\ evaluation_jobs[j].status = "failed" => tasks[j].job_fault
        /\ tasks[j].pc \in {"failing", "reverting"} => tasks[j].job_fault

\* C7 witness: a job is completed though every sheet of its sweep raised, and
\* there was more than one.
C7_Witness ==
    \E j \in JobIds :
        /\ tasks[j].pc = "exam_completed"
        /\ evaluation_jobs[j].status = "completed"
        /\ Len(tasks[j].sheets) > 1
        /\ tasks[j].failed = {tasks[j].sheets[k] : k \in DOMAIN tasks[j].sheets}

\* the engine's call for a question failed: it raised, or its text was no JSON
CallFailed(resp) == resp.kind \in {"raise", "badjson"}

\* the sum of max over the entries of a breakdown, entry by entry in dict order
RECURSIVE SumOfMax(_, _)
SumOfMax(breakdown, qids) ==
    IF qids = <<>> THEN 0
    ELSE breakdown[Head(qids)].max + SumOfMax(breakdown, Tail(qids))

LoopStep(j) == tasks[j].pc = "sweep" /\ tasks'[j].i = tasks[j].i + 1
\* the task of job j enumerates the sheets of its sweep
Enumerates(j) == tasks[j].pc = "start" /\ tasks'[j].pc = "sweep"
Unprocessed == {s \in SheetIds : ~answer_sheets[s].processed}
Listed(t) == {t.sheets[k] : k \in DOMAIN t.sheets}

\* C9 (as stated): a sheet whose processing raises is left with processed = false
\* and its student_id unchanged, and the next sweep takes it again; a sheet that
\* is scored is marked processed = true with its resolved identifier, and no
\* later sweep takes it.
C9_FailedRetriedScoredNeverAgain ==
    [][\A j \in JobIds :
          /\ Enumerates(j) => Listed(tasks'[j]) = Unprocessed
          /\ LoopStep(j) =>
                LET s == tasks[j].sheets[tasks[j].i]
                IN s \in SheetIds =>
                      IF s \in tasks'[j].failed
                      THEN /\ ~answer_sheets'[s].processed
                           /\ answer_sheets'[s].student_id = answer_sheets[s].student_id
                      ELSE /\ answer_sheets'[s].processed
                           /\ answer_sheets'[s].student_id # NoText]_vars

\* C9 (amended): a sheet whose processing raises before its answer_sheets update
\* has returned keeps its row as it was, processed flag and student_id; once the
\* update has returned the sheet is processed = true with its resolved
\* identifier, also when the progress write after it raises; a processed sheet
\* is never set back to unprocessed; and the select of every sweep returns
\* exactly the sheets that are not processed, so a sheet left unprocessed is
\* taken again and a processed one is not.
C9_UnprocessedUntilSheetUpdate ==
    [][/\ \A j \in JobIds :
             /\ Enumerates(j) => Listed(tasks'[j]) = Unprocessed
             /\ LoopStep(j) =>
                   LET s == tasks[j].sheets[tasks[j].i]
                   IN s \in SheetIds =>
                         IF tasks'[j].processed_count = tasks[j].processed_count
                         THEN /\ s \in tasks'[j].failed
                              /\ answer_sheets'[s] = answer_sheets[s]
                         ELSE /\ answer_sheets'[s].processed
                              /\ answer_sheets'[s].student_id # NoText
       /\ \A s \in SheetIds \cap DOMAIN answer_sheets' :
             answer_sheets[s].processed => answer_sheets'[s].processed]_vars

\* C9 witness: an earlier job is over, completed, having counted one of its two
\* sheets; a later job's sweep holds the sheet that is not processed and does not
\* hold the processed one.
C9_Witness ==
    \E k, j \in JobIds :
        /\ k < j
        /\ tasks[k].pc = "done"
        /\ evaluation_jobs[k].status = "completed"
        /\ evaluation_jobs[k].total_sheets = 2
        /\ evaluation_jobs[k].processed_sheets = 1
        /\ tasks[j].pc = "sweep"
        /\ \E s1, s2 \in SheetIds :
              /\ answer_sheets[s1].processed /\ s1 \notin Listed(tasks[j])
              /\ ~answer_sheets[s2].processed /\ s2 \in Listed(tasks[j])

\* C10: a re-run grades only the sheets that are not processed, and leaves the
\* result row and the illegible flags written for an already processed sheet as
\* they were.
C10_RerunLeavesProcessedSheetsAlone ==
    [][\A j \in JobIds :
          /\ Enumerates(j) => Listed(tasks'[j]) = Unprocessed
          /\ LoopStep(j) =>
                \A s \in SheetIds \ Listed(tasks[j]) :
                    answer_sheets[s].processed =>
                        /\ ResultsOf(results, answer_sheets[s].student_id) # {}
                        /\ ResultsOf(results', answer_sheets[s].student_id)
                               = ResultsOf(results, answer_sheets[s].student_id)
                        /\ \A f \in BagToSet(illegible_flags')
                                     \cup BagToSet(illegible_flags) :
                              f.original_answer_path = s =>
                                  CopiesIn(f, illegible_flags')
                                      = CopiesIn(f, illegible_flags)]_vars

\* a step of start_evaluation (each call takes one request that passed the
\* trigger's checks)
StartStep == trigger_passed' = trigger_passed - 1

\* C11: when start_evaluation finds the exam, the answer key or the sheets
\* missing, it raises the ValueError of that check to its caller and has written
\* nothing: no evaluation_jobs row, the exam status and every other row as they
\* were, no background task, nothing in running_jobs.
C11_ValidationFaultsWriteNothing ==
    [][(StartStep /\ (exam_status = NoExam \/ answer_keys = {} \/ SheetIds = {}))
          => /\ start_result' =
                   (IF exam_status = NoExam THEN "ValueError: exam"
                    ELSE IF answer_keys = {} THEN "ValueError: key"
                    ELSE "ValueError: sheets")
             /\ evaluation_jobs' = evaluation_jobs
             /\ exam_status' = exam_status
             /\ db' = db
             /\ tasks' = tasks
             /\ running_jobs' = running_jobs]_vars

\* C11 witness: start_evaluation has refused an exam that was deleted after the
\* trigger's own check, and no job exists.
C11_Witness ==
    /\ start_result = "ValueError: exam"
    /\ exam_status = NoExam
    /\ evaluation_jobs = <<>>
    /\ tasks = <<>>
    /\ running_jobs = {}

\* C12: start_evaluation on an exam that has sheets, all of them processed,
\* raises a no-work error and creates no job.
C12_NoWorkCreatesNoJob ==
    [][(/\ StartStep
        /\ exam_status # NoExam
        /\ answer_keys # {}
        /\ SheetIds # {}
        /\ \A s \in SheetIds : answer_sheets[s].processed)
          => /\ evaluation_jobs' = evaluation_jobs
             /\ start_result' \notin {"job started", "Exception"}]_vars

\* C13: every job row that start_evaluation inserts eventually has status
\* completed or failed, whatever write raises on the way.
C13_EveryJobEnds ==
    \A j \in 1..MaxJobs :
        [](j \in JobIds
              => <>(j \in JobIds /\ evaluation_jobs[j].status \in Terminal))

\* C14: in every reachable state a job has an error_message exactly when its
\* status is failed.
C14_CauseIffFailed ==
    \A j \in JobIds :
        evaluation_jobs[j].error_message # NULL <=> evaluation_jobs[j].status = "failed"

\* C14 witness: a job is failed and carries its cause, after a call outside the
\* loop body raised.
C14_Witness ==
    \E j \in JobIds :
        /\ evaluation_jobs[j].status = "failed"
        /\ evaluation_jobs[j].error_message # NULL
        /\ tasks[j].job_fault

\* C15: when the outer handler has marked the job failed and reverts the exam
\* status, the exam gets back the status it had just before start_evaluation set
\* it to evaluating.
C15_RevertRestoresFormerStatus ==
    [][\A j \in JobIds :
          (tasks[j].pc = "reverting" /\ exam_status' # exam_status)
              => exam_status' = tasks[j].exam_before]_vars

\* the reference aggregator: the marks of the entries that are not illegible,
\* entry by entry in dict order (an entry without marks adds nothing)
RECURSIVE SumOfAwarded(_, _)
SumOfAwarded(breakdown, qids) ==
    IF qids = <<>> THEN 0
    ELSE (IF breakdown[Head(qids)].illegible \/ breakdown[Head(qids)].awarded = None
          THEN 0 ELSE breakdown[Head(qids)].awarded)
         + SumOfAwarded(breakdown, Tail(qids))

\* C18: for every breakdown that grading produces, the totals process_evaluation
\* computes are those of the reference aggregator: max_marks the sum of max over
\* all entries, total_marks the sum of awarded over the entries that are not
\* illegible, has_illegible true exactly when some entry is illegible.
C18_TotalsMatchReference ==
    graded.done =>
        LET qids == QidOrder(graded.questions)
        IN /\ graded.max_marks = SumOfMax(graded.breakdown, qids)
           /\ graded.total_marks = SumOfAwarded(graded.breakdown, qids)
           /\ graded.has_illegible
                  <=> \E k \in DOMAIN qids : graded.breakdown[qids[k]].illegible

\* C18 witness: a graded sheet with a scored entry and an entry that is
\* illegible though the engine gave it marks; only the first counts.
C18_Witness ==
    /\ graded.done
    /\ graded.questions = KeyA
    /\ graded.breakdown["Q1"].illegible /\ graded.breakdown["Q1"].awarded = 1
    /\ ~graded.breakdown["Q2"].illegible /\ graded.breakdown["Q2"].awarded = 1
    /\ graded.total_marks = 1
    /\ graded.max_marks = 3
    /\ graded.has_illegible

\* the members of a finite set, one after the other
RECURSIVE Enumerated(_)
Enumerated(S) ==
    IF S = {} THEN <<>>
    ELSE LET x == CHOOSE y \in S : TRUE IN <<x>> \o Enumerated(S \ {x})

\* C16: in every state that sweeps, overrides and resolutions of flags reach,
\* in any order and overlapping, every result row has total_marks equal to the
\* sum of awarded over its entries that are not illegible, and has_illegible
\* true exactly when some entry is illegible.
C16_RowTotalsMatchBreakdown ==
    \A row \in results :
        /\ row.total_marks = SumOfAwarded(row.breakdown, Enumerated(DOMAIN row.breakdown))
        /\ row.has_illegible <=> \E q \in DOMAIN row.breakdown : row.breakdown[q].illegible

\* C16 witness: a swept row that an override and then a resolution have
\* rewritten: Q1 overridden to 4, Q2 resolved with 7, nothing illegible left.
C16_Witness ==
    \E row \in results :
        /\ DOMAIN row.breakdown = {"Q1", "Q2"}
        /\ row.breakdown["Q1"].justification = "override"
        /\ row.breakdown["Q1"].awarded = 4
        /\ row.breakdown["Q2"].justification = "manual"
        /\ row.breakdown["Q2"].awarded = 7
        /\ row.total_marks = 11
        /\ ~row.has_illegible

\* C17: every entry of every stored breakdown is illegible exactly when its
\* awarded marks are null.
C17_IllegibleIffNoMarks ==
    \A row \in results : \A q \in DOMAIN row.breakdown :
        row.breakdown[q].illegible <=> row.breakdown[q].awarded = None

\* a call of resolve_illegible_flag has just updated its flag
FlagStep ==
    /\ Len(requests') = Len(requests) + 1
    /\ requests'[Len(requests')].route = "resolve_illegible_flag"
    /\ requests'[Len(requests')].pc = "select"
\* call n of resolve_illegible_flag makes its update of the result row
ResultStep(n) ==
    /\ requests[n].route = "resolve_illegible_flag"
    /\ requests[n].pc = "update"
    /\ requests'[n].response = "200"
    /\ requests[n].question_id \in DOMAIN requests[n].current.breakdown
    /\ ResultsOf(results, requests[n].student_id) # {}

\* the example of the resolution: Q1 = 4, Q2 illegible
ExampleRow ==
    ResultRow(1, <<"A">>, ("Q1" :> Entry(4, 4, FALSE)) @@ ("Q2" :> Entry(None, 7, TRUE)))

\* C19 as stated: a resolution never lowers the total of the row it read.
C19_ResolutionRaisesTotal ==
    [][\A n \in RequestIds :
          ResultStep(n) =>
              \A row \in ResultsOf(results', requests[n].student_id) :
                  requests[n].current \in results
                      => row.total_marks >= requests[n].current.total_marks]_vars

\* C19, amended: a call of resolve_illegible_flag with marks m for question q
\* leaves, by its update of the flag, a flag of (student, q) resolved with
\* resolved_marks = m; and, by its update of a result whose breakdown contains
\* q, breakdown[q].awarded = m, breakdown[q].illegible = false, total_marks the
\* recomputed sum over the entries that are not illegible, and has_illegible
\* false exactly when no other entry is illegible.  The total is not lower than
\* the one read when the entry was still illegible; it may be lower when the
\* entry had marks (a flag resolved a second time, or an overridden entry).
\* Q1 = 4, Q2 illegible, Q2 resolved with 7 gives 11 and has_illegible false.
C19_ResolutionRewritesEntryAndTotals ==
    [][/\ FlagStep =>
              LET r == requests'[Len(requests')]
              IN \E f \in BagToSet(illegible_flags') :
                    /\ f.student_id = r.student_id
                    /\ f.question_id = r.question_id
                    /\ f.resolved
                    /\ f.resolved_marks = r.marks
       /\ \A n \in RequestIds :
             ResultStep(n) =>
                 LET r == requests[n]
                     q == r.question_id
                 IN \A row \in ResultsOf(results', r.student_id) :
                       /\ row.breakdown[q].awarded = r.marks
                       /\ ~row.breakdown[q].illegible
                       /\ row.total_marks
                              = SumOfAwarded(row.breakdown, Enumerated(DOMAIN row.breakdown))
                       /\ ~row.has_illegible
                              <=> \A other \in DOMAIN row.breakdown \ {q} :
                                     ~row.breakdown[other].illegible
                       /\ (r.current.breakdown[q].illegible
                              /\ r.current.total_marks
                                    = SumOfAwarded(r.current.breakdown,
                                                   Enumerated(DOMAIN r.current.breakdown)))
                             => row.total_marks >= r.current.total_marks
       /\ LET row == ResolvedRow(ExampleRow, ExampleRow, "Q2", 7)
          IN /\ row.breakdown["Q2"].awarded = 7
             /\ ~row.breakdown["Q2"].illegible
             /\ row.total_marks = 11
             /\ ~row.has_illegible]_vars

\* C19 witness: the example as the routes produce it: Q1 stands at 4, the flag
\* of Q2 is resolved with 7 and the row shows 7 for Q2, 11 in all, nothing
\* illegible.
C19_Witness ==
    \E row \in results :
        /\ DOMAIN row.breakdown = {"Q1", "Q2"}
        /\ row.breakdown["Q1"].awarded = 4
        /\ row.breakdown["Q2"].awarded = 7
        /\ ~row.breakdown["Q2"].illegible
        /\ row.breakdown["Q2"].justification = "manual"
        /\ row.total_marks = 11
        /\ ~row.has_illegible
        /\ \E f \in BagToSet(illegible_flags) :
              /\ f.student_id = row.student_id
              /\ f.question_id = "Q2"
              /\ f.resolved
              /\ f.resolved_marks = 7

\* C20: in every reachable state no two result rows carry the same student
\* identifier (one exam), whatever sheets were swept, two of them resolving to
\* the same identifier included, and whatever identifiers were corrected.
C20_OneRowPerStudent ==
    \A r1 \in results, r2 \in results : r1.student_id = r2.student_id => r1 = r2

\* C20 witness: a correction of an identifier ran into the row of another
\* student: the sheet of the first now carries the identifier of the second,
\* the update of results was refused, and both rows are still there.
C20_Witness ==
    /\ faults = 0
    /\ \E n \in RequestIds :
          /\ requests[n].route = "update_student"
          /\ requests[n].response = "500"
    /\ \A s \in SheetIds : answer_sheets[s].student_id = <<"A">>
    /\ Cardinality(SheetIds) = 2
    /\ Cardinality(results) = 2
    /\ ResultsOf(results, <<"A">>) # {}

\* the flag rows of a result row for a question
FlagCount(result_id, question_id) ==
    LET matching == {f \in BagToSet(illegible_flags) :
                        f.result_id = result_id /\ f.question_id = question_id}
    IN SumOver([f \in matching |-> CopiesIn(f, illegible_flags)], matching)
\* no task is between its start and its end
NoTaskRuns == \A j \in JobIds : tasks[j].pc \in {"none", "done"}

\* C21: once the jobs started so far are over, every entry of a result row
\* that is illegible has exactly one flag row of its (result, question) pair.
C21_OneFlagPerIllegibleEntry ==
    NoTaskRuns =>
        \A row \in results : \A q \in DOMAIN row.breakdown :
            row.breakdown[q].illegible => FlagCount(row.id, q) = 1

\* C22: the total_sheets of a job is the number of sheets its sweep enumerates.
C22_TotalIsSweepSize ==
    [][\A j \in JobIds :
          Enumerates(j) => Len(tasks'[j].sheets) = evaluation_jobs[j].total_sheets]_vars

\* C23: a pass of the loop that leaves its sheet with processed = false has
\* written no result row and no flag row.
C23_FailedSheetWritesNothing ==
    [][\A j \in JobIds :
          LoopStep(j) =>
              LET s == tasks[j].sheets[tasks[j].i]
              IN (s \in SheetIds /\ ~answer_sheets'[s].processed)
                    => /\ results' = results
                       /\ illegible_flags' = illegible_flags]_vars

\* no call of a review route is between its first and its last database call
NoRequestRuns == \A n \in RequestIds : requests[n].pc = "done"

\* C24: when no call is in flight, a flag that is resolved belongs to a result
\* whose entry for that question is not illegible.
C24_ResolvedFlagMeansResolvedEntry ==
    NoRequestRuns =>
        \A f \in BagToSet(illegible_flags) : \A row \in results :
            (f.resolved /\ row.id = f.result_id /\ f.question_id \in DOMAIN row.breakdown)
                => ~row.breakdown[f.question_id].illegible

\* C25: the max_marks of every result row is the sum of max over the entries
\* of its breakdown.
C25_MaxMarksMatchesBreakdown ==
    \A row \in results :
        row.max_marks = SumOfMax(row.breakdown, Enumerated(DOMAIN row.breakdown))

\* C26: the processed_sheets of a job never goes down, changes by one at a
\* time, and changes only while the job is in_progress.
C26_ProgressByOneWhileInProgress ==
    [][\A j \in JobIds :
          LET before == evaluation_jobs[j].processed_sheets
              after == evaluation_jobs'[j].processed_sheets
          IN /\ after >= before
             /\ after \in {before, before + 1}
             /\ after # before => /\ evaluation_jobs[j].status = "in_progress"
                                  /\ evaluation_jobs'[j].status = "in_progress"]_vars

\* sheet s was stored under the identifier synthesized from its id
Synthesized(s) ==
    /\ answer_sheets[s].processed
    /\ answer_sheets[s].student_id = Unknown \o <<"_">> \o SubSeq(sheet_ids[s], 1, PrefixLen)

\* C27: two distinct sheets stored under synthesized identifiers have distinct
\* identifiers, and each has a result row under its identifier.
C27_SynthesizedIdsDistinct ==
    \A s1 \in SheetIds, s2 \in SheetIds :
        (s1 # s2 /\ Synthesized(s1) /\ Synthesized(s2))
            => /\ answer_sheets[s1].student_id # answer_sheets[s2].student_id
               /\ ResultsOf(results, answer_sheets[s1].student_id) # {}
               /\ ResultsOf(results, answer_sheets[s2].student_id) # {}

\* ThreadPoolExecutor(max_workers=3)
max_workers == 3

\* C28: at any moment at most max_workers sheets of a job have a download or
\* an engine call outstanding, however many sheets the job sweeps.
C28_AtMostThreeSheetsInFlight ==
    \A j \in JobIds : Cardinality(tasks[j].calling) <= max_workers

\* C28 witness: a job over more sheets than max_workers, its last sheet in
\* flight and the sheets before it done.
C28_Witness ==
    \E j \in JobIds :
        /\ Len(tasks[j].sheets) > max_workers
        /\ tasks[j].i = Len(tasks[j].sheets)
        /\ tasks[j].calling = {tasks[j].sheets[tasks[j].i]}

\* C29: the question list of a job is the answer key as it stood when the task
\* loaded it; it stays the same for the whole sweep, whatever is done to the
\* answer key meanwhile; and every result a pass stores has one entry for each
\* question of that list, with that question's max_marks.
C29_QuestionsLoadedOnce ==
    [][\A j \in JobIds :
          /\ Enumerates(j) => tasks'[j].questions \in answer_keys
          /\ (tasks[j].pc = "sweep" /\ tasks'[j].pc = "sweep")
                => tasks'[j].questions = tasks[j].questions
          /\ (LoopStep(j) /\ results' # results)
                => \E row \in results' \ results :
                      /\ DOMAIN row.breakdown = Qids(tasks[j].questions)
                      /\ \A k \in DOMAIN tasks[j].questions :
                            LET last == LastWith(tasks[j].questions,
                                                 tasks[j].questions[k].qid)
                            IN row.breakdown[tasks[j].questions[k].qid].max
                                  = tasks[j].questions[last].max_marks]_vars

\* C29 witness: the answer key was replaced after the first sheet of a sweep
\* was graded; the second sheet is still to be graded against the list loaded.
C29_Witness ==
    \E j \in JobIds :
        /\ tasks[j].pc = "sweep"
        /\ tasks[j].questions = KeyA
        /\ answer_keys = {KeyB}
        /\ Len(tasks[j].sheets) = 2
        /\ tasks[j].i = 2
        /\ \E row \in results : DOMAIN row.breakdown = {"Q1", "Q2"}

\* the task of job j ends (finally has run)
TaskEnds(j) == tasks[j].pc \notin {"none", "done"} /\ tasks'[j].pc = "done"

\* C30: when the task of a job ends and nothing else has edited the exam
\* status (it is still evaluating before the task's last step), the exam is
\* not evaluating afterwards; it is completed exactly when the job is
\* completed, and it has the status it had before start_evaluation when the
\* job is failed.
C30_ExamFollowsJobAtTaskEnd ==
    [][\A j \in JobIds :
          (TaskEnds(j) /\ exam_status = "evaluating")
              => /\ exam_status' # "evaluating"
                 /\ exam_status' = "completed" <=> evaluation_jobs'[j].status = "completed"
                 /\ evaluation_jobs'[j].status = "failed"
                       => exam_status' = tasks[j].exam_before]_vars

\* routes/evaluation.trigger_evaluation, the response after start_evaluation
\* returned job_id (nothing runs between that return and this one)
EvaluationStartResponse(job_id) ==
    [message |-> "Evaluation started successfully", job_id |-> job_id,
     status |-> "in_progress"]

\* C31: the status trigger_evaluation returns with the job id is the status
\* stored in that job's evaluation_jobs row when the call returns.
C31_ReturnedStatusIsStored ==
    [][(StartStep /\ start_result' = "job started")
          => LET job_id == Len(evaluation_jobs')
             IN EvaluationStartResponse(job_id).status = evaluation_jobs'[job_id].status]_vars

\* the jobs that are pending or in_progress
LiveJobs == {j \in JobIds : evaluation_jobs[j].status \in {"pending", "in_progress"}}

\* C32: while a job of the exam is pending or in_progress the exam's status is
\* evaluating, whatever update_exam, create_answer_key and delete_answer_key
\* do meanwhile.
C32_LiveJobMeansEvaluating ==
    LiveJobs # {} => exam_status = "evaluating"

\* call n of a review route writes its result row and answers 200
RequestWrites(n) ==
    /\ requests[n].pc = "update"
    /\ requests'[n].pc = "done"
    /\ requests'[n].response = "200"
\* the entries call n is to change
Touched(r) ==
    IF r.route = "update_result" THEN DOMAIN r.updates.breakdown ELSE {r.question_id}

\* C33: overlapping calls of update_result and resolve_illegible_flag on one
\* result row lose no update: when a call writes the row, every entry that
\* another call has overridden or resolved, and that this call is not to
\* change, is in the row afterwards as it was before.
C33_NoLostUpdate ==
    [][\A n \in RequestIds :
          RequestWrites(n) =>
              \A row \in ResultsOf(results, requests[n].student_id), after \in results' :
                  after.id = row.id =>
                      \A q \in DOMAIN row.breakdown \ Touched(requests[n]) :
                          row.breakdown[q].justification \in {"override", "manual"}
                              => /\ q \in DOMAIN after.breakdown
                                 /\ after.breakdown[q] = row.breakdown[q]]_vars

\* every call of update_student so far has ended, and none was refused or raised
RenamesCompleted ==
    \A n \in RequestIds :
        requests[n].route = "update_student"
            => requests[n].pc = "done" /\ requests[n].response = "200"

\* C34: after any sequence of sweeps and completed renames, every sheet that is
\* processed has an identifier, and a result row of that identifier exists.
C34_ProcessedSheetHasResult ==
    RenamesCompleted =>
        \A s \in SheetIds :
            answer_sheets[s].processed
                => /\ answer_sheets[s].student_id # NoText
                   /\ ResultsOf(results, answer_sheets[s].student_id) # {}

\* C35: whenever the exam's status is ready, the exam has an answer key,
\* whatever the interleaving of create_answer_key, delete_answer_key,
\* start_evaluation and the background task (update_exam is not called).
C35_ReadyMeansKeyExists ==
    exam_status = "ready" => answer_keys # {}

\* call n of update_student makes its last update and answers 200, and no
\* other call of update_student has been made
RenameEnds(n) ==
    /\ requests[n].route = "update_student"
    /\ requests[n].pc = "flags"
    /\ requests'[n].response = "200"
    /\ \A m \in RequestIds \ {n} : requests[m].route # "update_student"

\* C36: when update_student has renamed a student (one call, the only one of
\* the run), no sheet, result row or flag is left under the old identifier, and every flag carries the identifier of
\* the result row its result_id points to.
C36_RenameMovesEveryRow ==
    [][\A n \in RequestIds :
          RenameEnds(n) =>
              LET old == requests[n].student_id IN
              /\ \A s \in DOMAIN answer_sheets' : answer_sheets'[s].student_id # old
              /\ ResultsOf(results', old) = {}
              /\ \A f \in BagToSet(illegible_flags') :
                    /\ f.student_id # old
                    /\ \A r \in results' :
                          r.id = f.result_id => r.student_id = f.student_id]_vars

\* C37: for every job, completed_at is set exactly when the status is completed
\* or failed, and a job that is in_progress or completed has started_at set.
C37_StampsFollowStatus ==
    \A j \in JobIds :
        /\ evaluation_jobs[j].completed_at # NULL <=> evaluation_jobs[j].status \in Terminal
        /\ evaluation_jobs[j].status \in {"in_progress", "completed"}
              => evaluation_jobs[j].started_at # NULL

\* a completed job beside a failed one
C37_Witness ==
    \E j, k \in JobIds :
        /\ evaluation_jobs[j].status = "completed"
        /\ evaluation_jobs[j].completed_at # NULL
        /\ evaluation_jobs[j].started_at # NULL
        /\ evaluation_jobs[k].status = "failed"
        /\ evaluation_jobs[k].completed_at # NULL

\* C38: running_jobs holds a job id exactly from the creation of the job's
\* background task to that task's end, on every way out of process_evaluation.
C38_RegisteredWhileTaskRuns ==
    /\ running_jobs \subseteq JobIds
    /\ \A j \in JobIds : j \in running_jobs <=> tasks[j].pc \notin {"none", "done"}

\* a task that ended because the failure handler itself raised
C38_Witness ==
    \E j \in JobIds :
        /\ tasks[j].pc = "done"
        /\ tasks[j].raised
        /\ evaluation_jobs[j].status \notin Terminal
        /\ j \notin running_jobs
====
